---- MODULE Spec2Model ----
(***************************************************************************)
(* A model of woolpert_example.py: the TasksManager that polls a batch of  *)
(* remote Earth Engine export tasks (poll) and resolves their output       *)
(* paths (get_export_destination).                                         *)
(*                                                                         *)
(* Python strings whose characters matter (file formats, file name         *)
(* prefixes, asset names, paths) are sequences of one-character strings.   *)
(* Python values compared across types (the dict that task.status()        *)
(* returns against the str constants of TaskStatus) carry a type tag.      *)
(***************************************************************************)
EXTENDS Integers, Sequences, FiniteSets, TLC

VARIABLES
    caller,          \* who drives the manager: the script's __main__ or any client
    tasks,           \* self.tasks: a sequence of task handles (ids)
    logger,          \* self.logger: "None" or "logger"
    paths,           \* self.paths
    config,          \* task.config of every task handle
    task_type,       \* task.task_type of every task handle
    state,           \* remote side: the state of every task of the service
    pc,              \* position of the (single) thread with respect to poll()
    max_retries,     \* poll's parameter
    backoff_factor,  \* poll's parameter
    retries,         \* poll's local counter
    slept,           \* argument of the most recent time.sleep, in 1/JitterDen s
    backoffs,        \* backoff sleeps since the last successful iteration
    lastActive,      \* value of the most recent any(task.active() ...)
    result,          \* what poll() returned, when pc = "returned"
    pollExc,         \* the exception that left the most recent poll()
    exitAt,          \* the place where the most recent poll() ended
    pollReturned,    \* some call of poll() on this manager has returned
    logged,          \* records the logger received in the most recent step
    gedExc,          \* the exception of the most recent get_export_destination()
    gedAt,           \* 1-based position in self.tasks of the task it raised at
    gedCalls,        \* number of calls of get_export_destination() so far
    expPc,           \* position of the thread with respect to export_im_collection()
    items,           \* the list im_collection.aggregate_array(property).getInfo()
    export_options,  \* the caller's export_options mapping
    submitted        \* export_im_collection's local list tasks

vars == <<caller, tasks, logger, paths, config, task_type, state, pc, max_retries, backoff_factor,
          retries, slept, backoffs, lastActive, result, pollExc, exitAt,
          pollReturned, logged, gedExc, gedAt, gedCalls, expPc, items,
          export_options, submitted>>

pollVars == <<max_retries, backoff_factor, retries, slept, backoffs, lastActive,
              result, pollExc, exitAt, pollReturned>>

gedVars == <<paths, gedExc, gedAt, gedCalls>>

expVars == <<expPc, items, export_options, submitted>>

-----------------------------------------------------------------------------
(* Bounds of the model.                                                    *)

\* Number of task handles the service knows.
MaxTasks == 2

\* get_export_destination() is called at most this many times on a manager.
MaxGedCalls == 2

\* Resolution of the jitter random.uniform(0, 1): its values are j/JitterDen.
JitterDen == 2

-----------------------------------------------------------------------------
(* Program constants.                                                      *)

DefaultMaxRetries == 5

DefaultBackoffFactor == 2

PollSleepSeconds == 10

TaskIds == 1 .. MaxTasks

-----------------------------------------------------------------------------
(* Python values.                                                          *)

Str(s) == <<"str", s>>

Dict(s) == <<"dict", "state", s>>

\* d['state'] of a status dict.
Item(d) == Str(d[3])

\* Python's ==: values of different types are unequal.
PyEq(a, b) == a = b

\* class TaskStatus
COMPLETED == Str("COMPLETED")

FAILED == Str("FAILED")

CANCEL_REQUESTED == Str("CANCEL_REQUESTED")

CANCELLED == Str("CANCELLED")

-----------------------------------------------------------------------------
(* The remote service: task states, and what the task handle reports.      *)

\* The states the service can move a task to next.
NextStates(s) ==
    CASE s = "READY" -> {"RUNNING", "CANCEL_REQUESTED"}
      [] s = "RUNNING" -> {"COMPLETED", "FAILED", "CANCEL_REQUESTED"}
      [] s = "CANCEL_REQUESTED" -> {"CANCELLED"}
      [] OTHER -> {}

\* task.status(): a dict whose 'state' is the task's state.
status(t) == Dict(state[t])

\* task.active()
active(t) == state[t] \in {"READY", "RUNNING", "CANCEL_REQUESTED"}

\* A remote call may fail with one of the errors poll() catches.
TransientErrors == {"ConnectionError", "TimeoutError"}

Elems(seq) == {seq[i] : i \in 1 .. Len(seq)}

\* The service moves one of the manager's tasks on. A task the manager does
\* not hold is not observed; it is READY when a caller hands it over.
TaskAdvance(t) ==
    /\ t \in Elems(tasks)
    /\ \E s \in NextStates(state[t]) : state' = [state EXCEPT ![t] = s]
    /\ UNCHANGED <<caller, tasks, logger, config, task_type, pc, logged>>
    /\ UNCHANGED pollVars
    /\ UNCHANGED gedVars
    /\ UNCHANGED expVars

-----------------------------------------------------------------------------
(* TasksManager.poll                                                       *)

\* The thread is not inside poll().
Outside == pc \in {"idle", "returned", "raised"}

RECURSIVE Pow(_, _)
Pow(b, n) == IF n = 0 THEN 1 ELSE b * Pow(b, n - 1)

\* The count poll() prints at the top of every iteration.
running_exports ==
    Cardinality({i \in 1 .. Len(tasks) :
        /\ task_type[tasks[i]] = "EXPORT_IMAGE"
        /\ PyEq(Item(status(tasks[i])), Str("RUNNING"))})

\* any(task.active() for task in self.tasks)
AnyActive == \E i \in 1 .. Len(tasks) : active(tasks[i])

\* The test of the fail-fast loop: task.status() == TaskStatus.FAILED
IsFailed(t) == PyEq(status(t), FAILED)

\* The test of the return statement: task.status() == TaskStatus.COMPLETED
IsCompleted(t) == PyEq(status(t), COMPLETED)

\* all(task.status() == TaskStatus.COMPLETED for task in self.tasks)
AllCompleted == \A i \in 1 .. Len(tasks) : IsCompleted(tasks[i])

\* A retry test that lets one retry too many through.
MayRetryInclusive == retries <= max_retries

\* if retries < max_retries
MayRetry == retries < max_retries

\* A backoff computed from the retry count before its increment.
SleepTimeStale(bf, k, j) == JitterDen * Pow(bf, k - 1) + j

\* backoff_factor ** retries + random.uniform(0, 1), in 1/JitterDen s
SleepTime(bf, k, j) == JitterDen * Pow(bf, k) + j

\* The arguments a caller passes to poll().
PollArgs ==
    {<<DefaultMaxRetries, DefaultBackoffFactor>>, <<1, 3>>, <<0, DefaultBackoffFactor>>}

\* The same, for a caller that also resolves paths.
FlowPollArgs ==
    {<<DefaultMaxRetries, DefaultBackoffFactor>>, <<0, DefaultBackoffFactor>>}

\* A successful poll that leaves the counter as it is.
RetriesKept == retries

\* retries = 0  # Reset retries after a successful poll
RetriesAfterSuccess == 0

\* The call: retries = 0, then the first evaluation of the loop condition.
CallPoll(mr, bf) ==
    /\ IF caller = "main"
          THEN /\ pc = "idle"
               /\ mr = DefaultMaxRetries
               /\ bf = DefaultBackoffFactor
          ELSE Outside
    /\ pc' = "check"
    /\ max_retries' = mr
    /\ backoff_factor' = bf
    /\ retries' = 0
    /\ backoffs' = 0
    /\ slept' = 0
    /\ lastActive' = FALSE
    /\ result' = FALSE
    /\ pollExc' = "none"
    /\ exitAt' = "none"
    /\ logged' = <<>>
    /\ UNCHANGED <<caller, tasks, logger, config, task_type, state, pollReturned>>
    /\ UNCHANGED gedVars
    /\ UNCHANGED expVars

\* The loop condition, every active() call answering.
PollCheckActive ==
    /\ pc = "check"
    /\ lastActive' = AnyActive
    /\ pc' = IF AnyActive THEN "body" ELSE "final"
    /\ logged' = <<>>
    /\ UNCHANGED <<caller, tasks, logger, config, task_type, state, max_retries,
                   backoff_factor, retries, slept, backoffs, result, pollExc,
                   exitAt, pollReturned>>
    /\ UNCHANGED gedVars
    /\ UNCHANGED expVars

\* The loop condition, an active() call raising: it is outside the try.
PollCheckActiveRaises(e) ==
    /\ pc = "check"
    /\ tasks # <<>>
    /\ pc' = "raised"
    /\ pollExc' = e
    /\ exitAt' = "check"
    /\ logged' = <<>>
    /\ UNCHANGED <<caller, tasks, logger, config, task_type, state, max_retries,
                   backoff_factor, retries, slept, backoffs, lastActive, result,
                   pollReturned>>
    /\ UNCHANGED gedVars
    /\ UNCHANGED expVars

\* One iteration of the loop body in which every status() call answers.
PollIterate ==
    /\ pc = "body"
    /\ IF \E i \in 1 .. Len(tasks) : IsFailed(tasks[i])
          THEN IF logger = "None"
                  THEN /\ pc' = "raised"
                       /\ pollExc' = "AttributeError"
                       /\ exitAt' = "failfast"
                       /\ logged' = <<>>
                       /\ UNCHANGED <<result, pollReturned>>
                  ELSE /\ pc' = "returned"
                       /\ result' = FALSE
                       /\ exitAt' = "failfast"
                       /\ pollReturned' = TRUE
                       /\ logged' = <<[level |-> "error", msg |-> "Task failed"]>>
                       /\ UNCHANGED pollExc
               /\ UNCHANGED <<retries, slept, backoffs>>
          ELSE /\ slept' = JitterDen * PollSleepSeconds
               /\ retries' = RetriesAfterSuccess
               /\ backoffs' = 0
               /\ pc' = "check"
               /\ logged' = <<>>
               /\ UNCHANGED <<result, pollExc, exitAt, pollReturned>>
    /\ UNCHANGED <<caller, tasks, logger, config, task_type, state, max_retries,
                   backoff_factor, lastActive>>
    /\ UNCHANGED gedVars
    /\ UNCHANGED expVars

\* One iteration in which a status() call raises e: the except clause.
PollInterrupted(e) ==
    /\ pc = "body"
    /\ IF logger = "None"
          THEN /\ pc' = "raised"
               /\ pollExc' = "AttributeError"
               /\ exitAt' = "handler"
               /\ logged' = <<>>
               /\ UNCHANGED <<retries, slept, backoffs, result, pollReturned>>
          ELSE IF MayRetry
                  THEN /\ retries' = retries + 1
                       /\ \E j \in 0 .. JitterDen - 1 :
                              slept' = SleepTime(backoff_factor, retries + 1, j)
                       /\ backoffs' = backoffs + 1
                       /\ pc' = "check"
                       /\ logged' = <<[level |-> "warning", msg |-> "Polling interrupted"],
                                      [level |-> "info", msg |-> "Retrying"]>>
                       /\ UNCHANGED <<result, pollExc, exitAt, pollReturned>>
                  ELSE /\ pc' = "returned"
                       /\ result' = FALSE
                       /\ exitAt' = "handler"
                       /\ pollReturned' = TRUE
                       /\ logged' = <<[level |-> "warning", msg |-> "Polling interrupted"],
                                      [level |-> "error", msg |-> "Max retries reached"]>>
                       /\ UNCHANGED <<retries, slept, backoffs, pollExc>>
    /\ UNCHANGED <<caller, tasks, logger, config, task_type, state, max_retries,
                   backoff_factor, lastActive>>
    /\ UNCHANGED gedVars
    /\ UNCHANGED expVars

\* The return statement after the loop, every status() call answering.
PollFinal ==
    /\ pc = "final"
    /\ result' = AllCompleted
    /\ pc' = "returned"
    /\ exitAt' = "final"
    /\ pollReturned' = TRUE
    /\ logged' = <<>>
    /\ UNCHANGED <<caller, tasks, logger, config, task_type, state, max_retries,
                   backoff_factor, retries, slept, backoffs, lastActive, pollExc>>
    /\ UNCHANGED gedVars
    /\ UNCHANGED expVars

\* The return statement after the loop, a status() call raising.
PollFinalRaises(e) ==
    /\ pc = "final"
    /\ tasks # <<>>
    /\ pc' = "raised"
    /\ pollExc' = e
    /\ exitAt' = "final"
    /\ logged' = <<>>
    /\ UNCHANGED <<caller, tasks, logger, config, task_type, state, max_retries,
                   backoff_factor, retries, slept, backoffs, lastActive, result,
                   pollReturned>>
    /\ UNCHANGED gedVars
    /\ UNCHANGED expVars

-----------------------------------------------------------------------------
(* TasksManager.get_export_destination                                     *)

Uppers ==
    <<"A", "B", "C", "D", "E", "F", "G", "H", "I", "J", "K", "L", "M",
      "N", "O", "P", "Q", "R", "S", "T", "U", "V", "W", "X", "Y", "Z">>

Lowers ==
    <<"a", "b", "c", "d", "e", "f", "g", "h", "i", "j", "k", "l", "m",
      "n", "o", "p", "q", "r", "s", "t", "u", "v", "w", "x", "y", "z">>

LowerChar(c) ==
    IF \E i \in 1 .. Len(Uppers) : Uppers[i] = c
       THEN Lowers[CHOOSE i \in 1 .. Len(Uppers) : Uppers[i] = c]
       ELSE c

\* str.lower()
lower(s) == [i \in 1 .. Len(s) |-> LowerChar(s[i])]

NotUnderscore(c) == c # "_"

\* A replace that removes nothing.
replaceNothing(s) == s

\* str.replace("_", "")
replace(s) == SelectSeq(s, NotUnderscore)

\* fileFormat.lower().replace("_", "")
Normalize(fmt) == replace(lower(fmt))

\* The extension: the normalised format, with the two renamings.
Extension(fmt) ==
    LET file_format == Normalize(fmt)
    IN  IF file_format = <<"g", "e", "o", "t", "i", "f", "f">>
           THEN <<"t", "i", "f">>
           ELSE IF file_format = <<"t", "f", "r", "e", "c", "o", "r", "d",
                                   "i", "m", "a", "g", "e">>
                   THEN <<"t", "f", "r", "e", "c", "o", "r", "d">>
                   ELSE file_format

\* f"{filenamePrefix}.{file_format}"
FilePath(prefix, fmt) == prefix \o <<".">> \o Extension(fmt)

\* A loop body that tests the cloud-storage file export before the asset.
ResolveFileFirst(cfg) ==
    IF "fileExportOptions" \in DOMAIN cfg
          /\ "cloudStorageDestination" \in DOMAIN cfg["fileExportOptions"]
       THEN [exc |-> "none",
             path |-> FilePath(
                 cfg["fileExportOptions"]["cloudStorageDestination"]["filenamePrefix"],
                 cfg["fileExportOptions"]["fileFormat"])]
       ELSE IF "assetExportOptions" \in DOMAIN cfg
               THEN [exc |-> "none",
                     path |-> cfg["assetExportOptions"]["earthEngineDestination"]["name"]]
               ELSE IF "fileExportOptions" \notin DOMAIN cfg
                       THEN [exc |-> "KeyError", path |-> <<>>]
                       ELSE [exc |-> "ValueError", path |-> <<>>]

\* One pass of the loop body for a task config: the path it appends, or the
\* exception it raises. Subscripting a dict by a key it lacks is a KeyError.
Resolve(cfg) ==
    IF "assetExportOptions" \in DOMAIN cfg
       THEN [exc |-> "none",
             path |-> cfg["assetExportOptions"]["earthEngineDestination"]["name"]]
       ELSE IF "fileExportOptions" \notin DOMAIN cfg
               THEN [exc |-> "KeyError", path |-> <<>>]
               ELSE IF "cloudStorageDestination" \in DOMAIN cfg["fileExportOptions"]
                       THEN [exc |-> "none",
                             path |-> FilePath(
                                 cfg["fileExportOptions"]["cloudStorageDestination"]
                                    ["filenamePrefix"],
                                 cfg["fileExportOptions"]["fileFormat"])]
                       ELSE [exc |-> "ValueError", path |-> <<>>]

\* Position of the first task of ts the loop raises at; 0 when there is none.
FirstRaise(ts) ==
    IF \E i \in 1 .. Len(ts) : Resolve(config[ts[i]]).exc # "none"
       THEN CHOOSE i \in 1 .. Len(ts) :
                /\ Resolve(config[ts[i]]).exc # "none"
                /\ \A k \in 1 .. i - 1 : Resolve(config[ts[k]]).exc = "none"
       ELSE 0

\* A loop that records nothing when some task makes it raise.
AppendedAtomic(ts) == IF FirstRaise(ts) = 0 THEN Len(ts) ELSE 0

\* Number of tasks of ts whose path the loop appends.
Appended(ts) == IF FirstRaise(ts) = 0 THEN Len(ts) ELSE FirstRaise(ts) - 1

\* A call that starts from an empty list of paths.
AccumulatedCleared == <<>>

\* self.paths as the call finds it: only __init__ empties the list.
Accumulated == paths

\* if tasks: self.tasks = tasks  (None and [] are both falsy)
Chosen(arg) == IF arg # <<>> THEN arg ELSE tasks

\* if self.logger: self.logger.error(e)
ErrorLog(exc) ==
    IF exc = "ValueError" /\ logger # "None"
       THEN <<[level |-> "error", msg |-> "Unsupported export destination"]>>
       ELSE <<>>

\* The lists a caller passes as tasks; <<>> stands for None and for [].
GedArgs == {<<>>} \cup {<<t>> : t \in TaskIds}

\* The same, for a caller that also polls: nothing, or the first task alone.
FlowGedArgs == {<<>>, <<1>>}

\* A script that resolves the paths without waiting for poll().
MayCallGedEarly(arg) == Outside

\* The script calls get_export_destination() once, after poll() returned.
MayCallGed(arg) ==
    IF caller = "main"
       THEN pc = "returned" /\ gedCalls = 0 /\ arg = <<>>
       ELSE Outside

GetExportDestination(arg) ==
    /\ MayCallGed(arg)
    /\ gedCalls < MaxGedCalls
    /\ LET ts == Chosen(arg)
           at == FirstRaise(ts)
           exc == IF at = 0 THEN "none" ELSE Resolve(config[ts[at]]).exc
       IN  /\ tasks' = ts
           /\ paths' = Accumulated
                        \o [i \in 1 .. Appended(ts) |-> Resolve(config[ts[i]]).path]
           /\ gedExc' = exc
           /\ gedAt' = at
           /\ logged' = ErrorLog(exc)
    /\ gedCalls' = gedCalls + 1
    /\ UNCHANGED <<caller, logger, config, task_type, state, pc>>
    /\ UNCHANGED pollVars
    /\ UNCHANGED expVars

-----------------------------------------------------------------------------
(* Task configs, in the shape the service gives them.                      *)

GeoTIFF == <<"G", "e", "o", "T", "I", "F", "F">>

GEO_TIFF == <<"G", "E", "O", "_", "T", "I", "F", "F">>

TFRecordImage == <<"T", "F", "R", "e", "c", "o", "r", "d", "I", "m", "a", "g", "e">>

TF_RECORD_IMAGE ==
    <<"T", "F", "_", "R", "E", "C", "O", "R", "D", "_", "I", "M", "A", "G", "E">>

CSV == <<"C", "S", "V">>

TF_RECORD_TABLE ==
    <<"T", "F", "_", "R", "E", "C", "O", "R", "D", "_", "T", "A", "B", "L", "E">>

Formats == {GeoTIFF, GEO_TIFF, TFRecordImage, TF_RECORD_IMAGE, CSV, TF_RECORD_TABLE}

\* "woolpert_example/<idx>", shortened
Prefix == <<"w", "/", "1">>

AssetName == <<"u", "/", "a">>

CloudConfig(fmt) ==
    [fileExportOptions |->
        [fileFormat |-> fmt,
         cloudStorageDestination |-> [bucket |-> "b", filenamePrefix |-> Prefix]]]

DriveConfig ==
    [fileExportOptions |->
        [fileFormat |-> CSV, driveDestination |-> [filenamePrefix |-> Prefix]]]

AssetConfig ==
    [assetExportOptions |-> [earthEngineDestination |-> [name |-> AssetName]]]

AssetAndFileConfig ==
    [assetExportOptions |-> [earthEngineDestination |-> [name |-> AssetName]],
     fileExportOptions |->
        [fileFormat |-> GeoTIFF,
         cloudStorageDestination |-> [bucket |-> "b", filenamePrefix |-> Prefix]]]

BareConfig == [description |-> "test_s2"]

\* The image export to cloud storage that the script submits.
ScriptKind == [task_type |-> "EXPORT_IMAGE", config |-> CloudConfig(GEO_TIFF)]

\* The tasks of the polling model: image exports to cloud storage, as the
\* script submits, alternating with table exports to Drive.
PollKinds ==
    {[t \in TaskIds |->
        IF t % 2 = 1 THEN ScriptKind
                     ELSE [task_type |-> "EXPORT_TABLE", config |-> DriveConfig]],
     [t \in TaskIds |-> ScriptKind]}

\* The tasks of the path-resolution model: every shape of config.
DestKinds ==
    [TaskIds ->
        {[task_type |-> "EXPORT_IMAGE", config |-> c] :
            c \in {CloudConfig(f) : f \in Formats}
                  \cup {DriveConfig, AssetConfig, AssetAndFileConfig, BareConfig}}]

-----------------------------------------------------------------------------
(* export_im_collection                                                    *)

\* The values of the collection's property, as getInfo() lists them.
Indexes == {<<"1">>, <<"2">>, <<"3">>}

\* The lists of values a collection can give; values may repeat.
RECURSIVE ListsUpTo(_)
ListsUpTo(n) ==
    IF n = 0 THEN {<<>>}
    ELSE ListsUpTo(n - 1)
         \cup {Append(l, x) : l \in {m \in ListsUpTo(n - 1) : Len(m) = n - 1},
                              x \in Indexes}

\* The script's export_options, with and without a fileNamePrefix.
OptionsWithPrefix ==
    [fileFormat |-> GeoTIFF, bucket |-> "b", fileNamePrefix |-> <<"w">>]

OptionsWithoutPrefix == [fileFormat |-> GeoTIFF, bucket |-> "b"]

\* d[k] = v on a dict
SetItem(d, k, v) == [x \in DOMAIN d \cup {k} |-> IF x = k THEN v ELSE d[x]]

\* The loop's _export_options: the copy, with the item's fileNamePrefix.
ItemOptions(opts, idx) ==
    IF "fileNamePrefix" \notin DOMAIN opts
       THEN SetItem(opts, "fileNamePrefix", idx)
       ELSE SetItem(opts, "fileNamePrefix", opts["fileNamePrefix"] \o <<"/">> \o idx)

\* A loop that works on the caller's mapping itself instead of a copy.
CallerOptionsAliased(opts, local) == local

\* _export_options = export_options.copy(): the caller's mapping stays as it
\* is whatever the loop stores in the copy.
CallerOptionsAfter(opts, local) == opts

\* A task that is created but never started.
StartSkipped(task) == task

\* task.start()
Start(task) == [task EXCEPT !.started = TRUE]

\* One pass of the loop: the task for the next item, started and appended.
ExportItem ==
    /\ expPc = "loop"
    /\ Len(submitted) < Len(items)
    /\ LET idx == items[Len(submitted) + 1]
           _export_options == ItemOptions(export_options, idx)
           task == [image |-> idx, options |-> _export_options, started |-> FALSE]
       IN  /\ submitted' = Append(submitted, Start(task))
           /\ export_options' = CallerOptionsAfter(export_options, _export_options)
    /\ UNCHANGED <<caller, tasks, logger, config, task_type, state, pc, logged,
                   expPc, items>>
    /\ UNCHANGED pollVars
    /\ UNCHANGED gedVars

\* return TasksManager(tasks, logger): the manager holds the tasks submitted,
\* task i of the manager being submitted[i].
ExportReturn ==
    /\ expPc = "loop"
    /\ Len(submitted) = Len(items)
    /\ expPc' = "done"
    /\ tasks' = [i \in 1 .. Len(submitted) |-> i]
    /\ paths' = <<>>
    /\ UNCHANGED <<caller, logger, config, task_type, state, pc, logged, items,
                   export_options, submitted, gedExc, gedAt, gedCalls>>
    /\ UNCHANGED pollVars

-----------------------------------------------------------------------------
(* The state after TasksManager(tasks, logger), the tasks started.         *)

\* Nothing has been called on the manager yet.
Fresh ==
    /\ paths = <<>>
    /\ state = [t \in TaskIds |-> "READY"]
    /\ pc = "idle"
    /\ max_retries = DefaultMaxRetries
    /\ backoff_factor = DefaultBackoffFactor
    /\ retries = 0
    /\ slept = 0
    /\ backoffs = 0
    /\ lastActive = FALSE
    /\ result = FALSE
    /\ pollExc = "none"
    /\ exitAt = "none"
    /\ pollReturned = FALSE
    /\ logged = <<>>
    /\ gedExc = "none"
    /\ gedAt = 0
    /\ gedCalls = 0

InitWith(kinds, callers, loggers) ==
    /\ caller \in callers
    /\ \E kind \in kinds :
          /\ config = [t \in TaskIds |-> kind[t].config]
          /\ task_type = [t \in TaskIds |-> kind[t].task_type]
          /\ caller = "main" => \A t \in TaskIds : kind[t] = ScriptKind
    /\ \E n \in 0 .. MaxTasks : tasks = [i \in 1 .. n |-> i]
    /\ logger \in loggers
    /\ caller = "main" => logger = "None"
    /\ Fresh
    /\ expPc = "done"
    /\ items = <<>>
    /\ export_options = OptionsWithPrefix
    /\ submitted = <<>>

\* A manager built without a logger, as export_im_collection builds it for
\* the script, driven by the script or by a client.
Init == InitWith(PollKinds, {"main", "client"}, {"None"})

\* The script's flow and a client's: poll() and get_export_destination().
Next ==
    \/ \E t \in TaskIds : TaskAdvance(t)
    \/ \E a \in FlowPollArgs : CallPoll(a[1], a[2])
    \/ PollCheckActive
    \/ \E e \in TransientErrors : PollCheckActiveRaises(e)
    \/ PollIterate
    \/ \E e \in TransientErrors : PollInterrupted(e)
    \/ PollFinal
    \/ \E e \in TransientErrors : PollFinalRaises(e)
    \/ \E arg \in FlowGedArgs : GetExportDestination(arg)

Spec == Init /\ [][Next]_vars

\* The thread keeps running while it is inside poll().
PollStep ==
    \/ PollCheckActive
    \/ \E e \in TransientErrors : PollCheckActiveRaises(e)
    \/ PollIterate
    \/ \E e \in TransientErrors : PollInterrupted(e)
    \/ PollFinal
    \/ \E e \in TransientErrors : PollFinalRaises(e)

\* Polling alone, under every argument of the model.
NextPoll ==
    \/ \E t \in TaskIds : TaskAdvance(t)
    \/ \E a \in PollArgs : CallPoll(a[1], a[2])
    \/ PollStep

\* A manager with or without a logger.
InitPoll == InitWith(PollKinds, {"main", "client"}, {"None", "logger"})

PollSpec == InitPoll /\ [][NextPoll]_vars

FairPollSpec == PollSpec /\ WF_vars(PollStep)

\* Path resolution alone, over every shape of config.
InitDest == InitWith(DestKinds, {"client"}, {"None", "logger"})

NextDest == \E arg \in GedArgs : GetExportDestination(arg)

DestSpec == InitDest /\ [][NextDest]_vars

\* export_im_collection(im_collection, description, export_options, logger=logger)
\* at its first line: tasks = [].
InitExport ==
    /\ caller = "client"
    /\ config = [t \in TaskIds |-> ScriptKind.config]
    /\ task_type = [t \in TaskIds |-> ScriptKind.task_type]
    /\ tasks = <<>>
    /\ logger \in {"None", "logger"}
    /\ Fresh
    /\ expPc = "loop"
    /\ items \in ListsUpTo(MaxTasks)
    /\ export_options \in {OptionsWithPrefix, OptionsWithoutPrefix}
    /\ submitted = <<>>

NextExport == ExportItem \/ ExportReturn

ExportSpec == InitExport /\ [][NextExport]_vars

-----------------------------------------------------------------------------
(* Properties.                                                             *)

InPoll == pc \in {"check", "body", "final"}

\* Number of tasks of self.tasks whose path the most recent call of
\* get_export_destination() appended.
Processed == IF gedAt = 0 THEN Len(tasks) ELSE gedAt - 1

\* C1: whenever poll() returns, its result is True if and only if every task
\* of self.tasks is in state COMPLETED at the moment of return.
C1_TrueIffAllCompleted ==
    [][(pc # "returned" /\ pc' = "returned") =>
          (result' <=> \A i \in 1 .. Len(tasks') : state'[tasks'[i]] = "COMPLETED")]_vars

\* C2: a poll() that ends in its except clause, the transient errors having
\* used up the retry budget, ends by returning False: it does not raise.
C2_ExhaustionReturnsFalse ==
    (Outside /\ exitAt = "handler") => (pc = "returned" /\ result = FALSE)

\* C3: no ConnectionError or TimeoutError of a remote call leaves poll() as
\* an exception.
C3_TransientNeverPropagates ==
    pc = "raised" => pollExc \notin TransientErrors

\* The integer parts of the delays under the default arguments.
DefaultDelays == <<2, 4, 8, 16, 32>>

\* C4: the k-th consecutive retry sleeps backoff_factor^k + j seconds with
\* 0 <= j < 1; under the defaults the integer parts are 2, 4, 8, 16, 32 and
\* each delay of a run of retries is larger than the one before.
C4_State ==
    retries >= 1 =>
        /\ JitterDen * Pow(backoff_factor, retries) <= slept
        /\ slept < JitterDen * (Pow(backoff_factor, retries) + 1)
        /\ (max_retries = DefaultMaxRetries /\ backoff_factor = DefaultBackoffFactor)
              => slept \div JitterDen = DefaultDelays[retries]

C4_Step ==
    (/\ backoff_factor = DefaultBackoffFactor
     /\ retries >= 1
     /\ retries' = retries + 1) => slept' > slept

C4_BackoffDelays == [](C4_State) /\ [][C4_Step]_vars

C4_Witness ==
    /\ max_retries = DefaultMaxRetries
    /\ backoff_factor = DefaultBackoffFactor
    /\ retries = DefaultMaxRetries
    /\ slept \div JitterDen = 32
    /\ pc = "check"

\* The extension the claim gives each format of the model.
ClaimedExtension(fmt) ==
    CASE fmt = GeoTIFF -> <<"t", "i", "f">>
      [] fmt = GEO_TIFF -> <<"t", "i", "f">>
      [] fmt = TFRecordImage -> <<"t", "f", "r", "e", "c", "o", "r", "d">>
      [] fmt = TF_RECORD_IMAGE -> <<"t", "f", "r", "e", "c", "o", "r", "d">>
      [] fmt = CSV -> <<"c", "s", "v">>
      [] fmt = TF_RECORD_TABLE ->
            <<"t", "f", "r", "e", "c", "o", "r", "d", "t", "a", "b", "l", "e">>

\* A config with no assetExportOptions whose fileExportOptions names a
\* cloudStorageDestination.
IsCloudFile(cfg) ==
    /\ "assetExportOptions" \notin DOMAIN cfg
    /\ "fileExportOptions" \in DOMAIN cfg
    /\ "cloudStorageDestination" \in DOMAIN cfg["fileExportOptions"]

\* The entry of self.paths that the most recent call appended for the task
\* at position i of self.tasks.
PathOf(i) == paths[Len(paths) - Processed + i]

\* C5: for a cloud-storage file export, get_export_destination() appends
\* exactly one path, "<filenamePrefix>.<ext>", ext being tif for GeoTIFF and
\* GEO_TIFF, tfrecord for TFRecordImage and TF_RECORD_IMAGE, and the
\* lower-cased format without underscores otherwise.
C5_CloudFilePath ==
    gedCalls > 0 =>
        /\ Len(paths) >= Processed
        /\ \A i \in 1 .. Processed :
              IsCloudFile(config[tasks[i]]) =>
                 PathOf(i) =
                    config[tasks[i]]["fileExportOptions"]["cloudStorageDestination"]
                       ["filenamePrefix"]
                    \o <<".">>
                    \o ClaimedExtension(config[tasks[i]]["fileExportOptions"]["fileFormat"])

C5_Witness ==
    /\ gedCalls = 1
    /\ gedExc = "none"
    /\ Len(tasks) = 2
    /\ config[tasks[1]] = CloudConfig(GEO_TIFF)
    /\ config[tasks[2]] = CloudConfig(TF_RECORD_IMAGE)
    /\ paths = <<Prefix \o <<".", "t", "i", "f">>,
                 Prefix \o <<".", "t", "f", "r", "e", "c", "o", "r", "d">>>>

\* A config that names no recognized export destination.
Unrecognized(cfg) ==
    /\ "assetExportOptions" \notin DOMAIN cfg
    /\ \/ "fileExportOptions" \notin DOMAIN cfg
       \/ "cloudStorageDestination" \notin DOMAIN cfg["fileExportOptions"]

\* C6: on reaching a task whose config names no recognized destination,
\* get_export_destination() raises a ValueError there, and the error reaches
\* the logger (when there is one).
C6_UnrecognizedRaisesValueError ==
    (gedCalls > 0 /\ \E i \in 1 .. Len(tasks) : Unrecognized(config[tasks[i]])) =>
        /\ gedAt # 0
        /\ Unrecognized(config[tasks[gedAt]])
        /\ \A k \in 1 .. gedAt - 1 : ~Unrecognized(config[tasks[k]])
        /\ gedExc = "ValueError"
        /\ logger # "None" => \E k \in 1 .. Len(logged) : logged[k].level = "error"

\* C7: self.paths is non-empty only if a call of poll() has returned.
C7_PathsOnlyAfterPoll == paths # <<>> => pollReturned

\* C7, amended: in the script's flow self.paths is non-empty only if poll()
\* has returned; in any flow it is non-empty only if
\* get_export_destination() has been called.
C7_PathsOnlyAfterPollInScript ==
    /\ (caller = "main" /\ paths # <<>>) => pollReturned
    /\ paths # <<>> => gedCalls > 0

C7_Witness == caller = "main" /\ paths # <<>> /\ pollReturned

\* C8: after the script's flow every entry of self.paths belongs to a task
\* whose state is COMPLETED (a state the service never leaves).
C8_OnlyCompletedMapped ==
    (caller = "main" /\ gedCalls > 0) =>
        \A i \in 1 .. Processed : state[tasks[i]] = "COMPLETED"

\* C9: if every task eventually becomes inactive and stays inactive, poll()
\* eventually returns; and poll() returns True only if no task was active at
\* its last activity check.
C9_PollTerminates ==
    /\ (<>[](~AnyActive)) => [](InPoll => <>(pc = "returned"))
    /\ []((pc = "returned" /\ result) => ~lastActive)

\* C10: 0 <= retries <= max_retries, and at most max_retries backoff sleeps
\* happen between two successful polling iterations.
C10_RetriesBounded ==
    /\ 0 <= retries
    /\ retries <= max_retries
    /\ backoffs <= max_retries

C10_Witness ==
    /\ pc = "body"
    /\ max_retries = DefaultMaxRetries
    /\ retries = max_retries
    /\ backoffs = max_retries

\* C11: export_im_collection() returns a manager with exactly one task per
\* item of the index list, in the list's order, every one of them started
\* before the manager is returned.
C11_OneStartedTaskPerItem ==
    expPc = "done" =>
        /\ Len(tasks) = Len(items)
        /\ \A i \in 1 .. Len(tasks) :
              /\ tasks[i] \in 1 .. Len(submitted)
              /\ submitted[tasks[i]].image = items[i]
              /\ submitted[tasks[i]].started

C11_Witness ==
    /\ expPc = "done"
    /\ items = <<<<"2">>, <<"1">>>>
    /\ Len(tasks) = 2
    /\ submitted[tasks[1]].image = <<"2">>
    /\ submitted[tasks[2]].started

\* C12: for a task whose config contains assetExportOptions,
\* get_export_destination() appends exactly the asset name, unmodified and
\* without extension, also when the config contains fileExportOptions too.
C12_AssetNameAppended ==
    gedCalls > 0 =>
        \A i \in 1 .. Processed :
            "assetExportOptions" \in DOMAIN config[tasks[i]] =>
                /\ PathOf(i) = <<"u", "/", "a">>
                /\ PathOf(i) =
                      config[tasks[i]]["assetExportOptions"]["earthEngineDestination"]["name"]

C12_Witness ==
    /\ gedCalls = 1
    /\ gedExc = "none"
    /\ Len(tasks) = 2
    /\ config[tasks[1]] = AssetAndFileConfig
    /\ config[tasks[2]] = AssetConfig
    /\ paths = <<AssetName, AssetName>>

\* A step that is one loop iteration without transient error, going on to
\* the next evaluation of the loop condition.
SuccessfulIteration == pc = "body" /\ pc' = "check" /\ logged' = <<>>

\* A step in which poll() gives up: "Max retries reached", return False.
AbortStep == pc = "body" /\ pc' = "returned" /\ exitAt' = "handler"

\* C13: every iteration that completes without transient error resets
\* retries to 0, and poll() gives up only in the iteration that follows
\* max_retries consecutive failed iterations (the max_retries + 1st of the
\* run), so errors separated by successful polls never make it give up.
C13_ResetAndAbort ==
    [][/\ SuccessfulIteration => retries' = 0
       /\ AbortStep => (backoffs = max_retries /\ retries = max_retries /\ ~result')]_vars

C13_Witness ==
    /\ pc = "returned"
    /\ exitAt = "handler"
    /\ max_retries = DefaultMaxRetries
    /\ backoffs = DefaultMaxRetries
    /\ result = FALSE

\* A step that is one loop iteration in which no status() call raised.
ErrorFreeIteration ==
    /\ pc = "body"
    /\ pc' # "body"
    /\ exitAt' # "handler"
    /\ \A k \in 1 .. Len(logged') : logged'[k].level # "warning"

\* C14: an iteration without transient error that observes a FAILED task
\* while a task is still active logs the failure and returns False at once.
C14_FailFast ==
    [][(/\ ErrorFreeIteration
        /\ logger # "None"
        /\ AnyActive
        /\ \E i \in 1 .. Len(tasks) : state[tasks[i]] = "FAILED")
          => (/\ pc' = "returned"
              /\ ~result'
              /\ \E k \in 1 .. Len(logged') : logged'[k].level = "error")]_vars

\* A config the loop has a destination for.
HasDestination(cfg) == "assetExportOptions" \in DOMAIN cfg \/ IsCloudFile(cfg)

\* The destination of such a config: the asset name, or the file path.
Destination(cfg) ==
    IF "assetExportOptions" \in DOMAIN cfg
       THEN <<"u", "/", "a">>
       ELSE cfg["fileExportOptions"]["cloudStorageDestination"]["filenamePrefix"]
            \o <<".">>
            \o ClaimedExtension(cfg["fileExportOptions"]["fileFormat"])

\* A step that is a call of get_export_destination().
GedStep == gedCalls' = gedCalls + 1

\* C15: a call of get_export_destination() that does not raise leaves
\* self.paths as it was, followed by one destination per task of self.tasks
\* in task order; so k calls on the same n tasks leave k*n entries.
C15_AppendsOnePerTask ==
    [][(GedStep /\ gedExc' = "none") =>
          paths' = paths \o [i \in 1 .. Len(tasks') |-> Destination(config[tasks'[i]])]]_vars

C15_Witness ==
    /\ gedCalls = 2
    /\ gedExc = "none"
    /\ Len(tasks) = 2
    /\ Len(paths) = 4
    /\ paths[1] = paths[3]
    /\ paths[2] = paths[4]
    /\ paths[1] # paths[2]

\* Position in ts of the first task the loop has no destination for; 0 when
\* there is none.
FirstWithout(ts) ==
    IF \E i \in 1 .. Len(ts) : ~HasDestination(config[ts[i]])
       THEN CHOOSE i \in 1 .. Len(ts) :
                /\ ~HasDestination(config[ts[i]])
                /\ \A k \in 1 .. i - 1 : HasDestination(config[ts[k]])
       ELSE 0

\* C16: when get_export_destination() raises at a task, self.paths has been
\* extended by exactly the destinations of the tasks before it, in order,
\* and by nothing for the tasks after it.
C16_PartialOnError ==
    [][(GedStep /\ gedExc' # "none") =>
          /\ FirstWithout(tasks') # 0
          /\ gedAt' = FirstWithout(tasks')
          /\ paths' = paths \o [i \in 1 .. FirstWithout(tasks') - 1 |->
                                   Destination(config[tasks'[i]])]]_vars

C16_Witness ==
    /\ gedCalls = 1
    /\ gedExc # "none"
    /\ Len(tasks) = 2
    /\ gedAt = 2
    /\ Len(paths) = 1

\* C17: the task of item idx is submitted with fileNamePrefix idx when the
\* caller's export_options has no fileNamePrefix and "<caller prefix>/<idx>"
\* when it has one, no item's prefix carrying over into the next; and the
\* caller's export_options is left unchanged.
C17_Prefixes ==
    \A i \in 1 .. Len(submitted) :
        submitted[i].options["fileNamePrefix"] =
            IF export_options = OptionsWithoutPrefix
               THEN items[i]
               ELSE <<"w", "/">> \o items[i]

C17_PrefixPerItem == [](C17_Prefixes) /\ [][export_options' = export_options]_vars

C17_Witness ==
    /\ expPc = "done"
    /\ export_options = OptionsWithPrefix
    /\ items = <<<<"1">>, <<"2">>>>
    /\ submitted[2].options["fileNamePrefix"] = <<"w", "/", "2">>

====
